---- MODULE Spec2Model ----
(***************************************************************************)
(* cpu-usage-logger (src/src/main.rs): one measurement-and-reporting loop. *)
(*                                                                         *)
(* Abstractions.                                                           *)
(*  - f32 percentages are integers (whole percent).  The rates and         *)
(*    durations below are chosen so that every division is exact.          *)
(*  - A String is the sequence of its lines; a line is a record with a     *)
(*    "kind" field and the values formatted into it.  EmptyLine is "".     *)
(*    Option<String>: None is the empty sequence (no produced message is   *)
(*    the empty string).                                                   *)
(*  - get_iso_time() is the value of the clock `now`, which advances only  *)
(*    during the two sleeps.                                               *)
(*  - sysinfo: a Process keeps the cpu usage computed by the last refresh  *)
(*    of the System; Process::cpu_usage(&self) is a getter of that value.  *)
(*    The OS counter of a process is kept relative to the value sysinfo    *)
(*    read at its last refresh (unread_cpu_time).  The refresh of the      *)
(*    first cycle follows System::new_all() at once: no cpu time yet.      *)
(*  - The run is `-m 1 -b 4` on a machine of two physical cores: a process *)
(*    busy on one core through the window, the wait, or both, then has a   *)
(*    usage of 10, 40 or 50 percent.                                       *)
(*  - The panics of the unwrap()/expect() calls (NaN usage, a log file     *)
(*    that cannot be opened, a screen that cannot be cleared) are not      *)
(*    modelled: every I/O call succeeds.                                   *)
(***************************************************************************)
EXTENDS Integers, Sequences, FiniteSets, TLC

\* ------------------------------------------------------------------ bounds
MaxProcs == 2
MaxCycles == 2
\* process-sleeps during which a process is busy, over the whole run
MaxBusy == 3

\* ----------------------------------------------------- environment / inputs
CpuCount == 2
measurement_time == 1
time_between_measurements == 4

Pids == 1..MaxProcs
TotalThresholds == {50}
ProcessThresholds == {40, 50}
NumbersToShow == {0, 1, 5}

VARIABLES
    args,                       \* Args (never mutated)
    pc,                         \* position in the loop body
    cycle,                      \* iteration number (bounds the run)
    now,                        \* wall clock, seconds
    alive,                      \* OS: running processes
    busy_sleeps,                \* OS: process-sleeps spent busy so far (bounds the run)
    unread_cpu_time,            \* OS: cpu time consumed since sysinfo last read it
    window_cpu_time,            \* OS: cpu time consumed in this cycle's measurement window
    sys_processes,              \* sys.processes(): pids known since the last refresh
    sys_cpu_usage,              \* Process.cpu_usage as computed by the last refresh
    last_refresh,               \* time of the last refresh
    cpu_stats,                  \* cpu_stats.processes
    total_cpu_usage,
    formatted_stats,
    total_cpu_usage_message,
    process_cpu_usage_message,
    file,                       \* the log file: whether it exists, and its lines
    file_at_cycle_start,        \* history: `file` when the cycle began
    console                     \* stdout events of the current cycle

vars == <<args, pc, cycle, now, alive, busy_sleeps, unread_cpu_time, window_cpu_time,
          sys_processes, sys_cpu_usage, last_refresh, cpu_stats,
          total_cpu_usage, formatted_stats, total_cpu_usage_message,
          process_cpu_usage_message, file, file_at_cycle_start, console>>

\* ----------------------------------------------------------------- helpers
None == <<>>
IsSome(opt) == opt # None
EmptyLine == [kind |-> "empty"]
PreExistingLine == [ts |-> -1, text |-> [kind |-> "pre-existing"]]
NoFile == [exists |-> FALSE, lines |-> <<>>]
PreExistingFile == [exists |-> TRUE, lines |-> <<PreExistingLine>>]

Min(a, b) == IF a <= b THEN a ELSE b

RECURSIVE SumUsage(_)
SumUsage(s) == IF s = <<>> THEN 0 ELSE Head(s).got_cpu_usage + SumUsage(Tail(s))

\* all orders in which a HashMap may hand out the processes of `set`
RECURSIVE Orders(_)
Orders(set) ==
    IF set = {} THEN {<<>>}
    ELSE UNION {{<<p>> \o o : o \in Orders(set \ {p})} : p \in set}

\* sysinfo: usage in percent of one core over the time between two refreshes
ProcessCpuUsage(delta, elapsed) ==
    IF elapsed = 0 THEN 0 ELSE (100 * delta) \div elapsed

\* mutant of Breaches: exclusive comparison
BreachesStrict(usage, threshold) == usage > threshold

\* threshold test of both checks
Breaches(usage, threshold) == usage >= threshold

\* slice::sort_by(|a, b| a.partial_cmp(b).unwrap().reverse()): stable, descending
RECURSIVE InsertDesc(_, _)
InsertDesc(x, sorted) ==
    IF sorted = <<>> THEN <<x>>
    ELSE IF Head(sorted).got_cpu_usage >= x.got_cpu_usage
         THEN <<Head(sorted)>> \o InsertDesc(x, Tail(sorted))
         ELSE <<x>> \o sorted

\* mutant of SortByUsage: the comparison not reversed (ascending)
RECURSIVE InsertAsc(_, _)
InsertAsc(x, sorted) ==
    IF sorted = <<>> THEN <<x>>
    ELSE IF Head(sorted).got_cpu_usage <= x.got_cpu_usage
         THEN <<Head(sorted)>> \o InsertAsc(x, Tail(sorted))
         ELSE <<x>> \o sorted

RECURSIVE SortAscending(_)
SortAscending(s) ==
    IF s = <<>> THEN <<>>
    ELSE InsertAsc(s[Len(s)], SortAscending(SubSeq(s, 1, Len(s) - 1)))

RECURSIVE SortByUsage(_)
SortByUsage(s) ==
    IF s = <<>> THEN <<>>
    ELSE InsertDesc(s[Len(s)], SortByUsage(SubSeq(s, 1, Len(s) - 1)))

\* mutant of Take: one element too many
TakeOneMore(s, n) == SubSeq(s, 1, Min(n + 1, Len(s)))

\* Iterator::take(n)
Take(s, n) == SubSeq(s, 1, Min(n, Len(s)))

RECURSIVE TakeWhileBreaching(_, _)
TakeWhileBreaching(s, threshold) ==
    IF s = <<>> \/ ~Breaches(Head(s).got_cpu_usage, threshold) THEN <<>>
    ELSE <<Head(s)>> \o TakeWhileBreaching(Tail(s), threshold)

get_iso_time == now

StatsRow(p) == [kind |-> "row", pid |-> p.pid, usage |-> p.got_cpu_usage]

\* the {stats} part: rows folded as "\n" + row, then trim(); no row leaves ""
StatsLines(stats, num_processes) ==
    LET rows == [i \in 1..Len(Take(stats, num_processes)) |-> StatsRow(stats[i])]
    IN IF rows = <<>> THEN <<EmptyLine>> ELSE rows

format_stats(stats, total, num_processes) ==
    << [kind |-> "header"],
       [kind |-> "total", usage |-> total],
       [kind |-> "timestamp", ts |-> get_iso_time],
       [kind |-> "divider"],
       [kind |-> "column_names"],
       [kind |-> "column_names_divider"] >>
    \o StatsLines(stats, num_processes)
    \o << [kind |-> "divider"] >>

TotalMessage(threshold, total) ==
    << [kind |-> "total_exceeded", threshold |-> threshold, usage |-> total] >>

ProcessLine(threshold, p) ==
    [kind |-> "process_exceeded", threshold |-> threshold,
     pid |-> p.pid, usage |-> p.got_cpu_usage]

\* the fold of lines 151-165 over the taken prefix
ProcessMessage(stats, threshold) ==
    LET taken == TakeWhileBreaching(stats, threshold)
    IN [i \in 1..Len(taken) |-> ProcessLine(threshold, taken[i])]

\* mutant of ProcessedMessage: no trailing "\n" in the format string
ProcessedMessageNoTrailer(message) ==
    LET pieces == <<EmptyLine>> \o message
    IN [i \in 1..Len(pieces) |-> [ts |-> get_iso_time, text |-> pieces[i]]]

\* format!("\n{}\n", message).split('\n'), each piece prefixed with pre_text;
\* join("\n") and writeln! make every piece one line of the file
ProcessedMessage(message) ==
    LET pieces == <<EmptyLine>> \o message \o <<EmptyLine>>
    IN [i \in 1..Len(pieces) |-> [ts |-> get_iso_time, text |-> pieces[i]]]

\* mutant of log_to_file: the early return on a missing path left out
log_to_file_always(file_path, message, old) ==
    [exists |-> TRUE, lines |-> old.lines \o ProcessedMessage(message)]

\* log_to_file: the file after the call (append mode, created if absent)
log_to_file(file_path, message, old) ==
    IF file_path = "None" THEN old
    ELSE [exists |-> TRUE, lines |-> old.lines \o ProcessedMessage(message)]

Println(text) == [op |-> "println", text |-> text]
ClearScreen == [op |-> "clear"]

\* mutant of PrintEvents: the two alert messages printed in the other order
PrintEventsSwapped(table, total_message, process_message) ==
    << ClearScreen, Println(table) >>
    \o (IF IsSome(process_message)
        THEN << Println(<<EmptyLine>> \o process_message) >> ELSE <<>>)
    \o (IF IsSome(total_message)
        THEN << Println(<<EmptyLine>> \o total_message) >> ELSE <<>>)

\* the console events of lines 182-193, in order
PrintEvents(table, total_message, process_message) ==
    << ClearScreen, Println(table) >>
    \o (IF IsSome(total_message)
        THEN << Println(<<EmptyLine>> \o total_message) >> ELSE <<>>)
    \o (IF IsSome(process_message)
        THEN << Println(<<EmptyLine>> \o process_message) >> ELSE <<>>)

\* ------------------------------------------------------------ environment
\* What the OS does during a sleep of `duration` seconds: the processes of
\* `busy` keep one core busy each, the others are idle.
Consumed(busy, duration) == [p \in Pids |-> IF p \in busy THEN duration ELSE 0]

BusyChoices == {b \in SUBSET alive : busy_sleeps + Cardinality(b) <= MaxBusy}

\* At most one process ends during a sleep; pid 1 (the logger itself) never
\* does.
ExitChoices == {e \in SUBSET (alive \ {1}) : Cardinality(e) <= 1}

\* ---------------------------------------------------------------- actions
Init ==
    /\ args \in [total_log_threshold : TotalThresholds,
                 process_log_threshold : ProcessThresholds,
                 number_of_processes_to_show : NumbersToShow,
                 cli : BOOLEAN,
                 log_file : {"None", "Some"}]
    /\ pc = "begin"
    /\ cycle = 1
    /\ now = 0
    /\ alive = Pids
    /\ busy_sleeps = 0
    /\ unread_cpu_time = [p \in Pids |-> 0]
    /\ window_cpu_time = [p \in Pids |-> 0]
    /\ sys_processes = Pids
    /\ sys_cpu_usage = [p \in Pids |-> 0]
    /\ last_refresh = 0
    /\ cpu_stats = <<>>
    /\ total_cpu_usage = 0
    /\ formatted_stats = None
    /\ total_cpu_usage_message = None
    /\ process_cpu_usage_message = None
    /\ file \in IF args.log_file = "None" THEN {NoFile} ELSE {NoFile, PreExistingFile}
    /\ file_at_cycle_start = file
    /\ console = <<>>

\* lines 88-97: refresh, CPUStats::from(sys.processes()), first cpu_usage() calls
BeginSample ==
    /\ pc = "begin"
    /\ sys_processes' = alive
    /\ sys_cpu_usage' = [p \in Pids |->
            IF p \in alive
            THEN ProcessCpuUsage(unread_cpu_time[p], now - last_refresh)
            ELSE 0]
    /\ unread_cpu_time' = [p \in Pids |-> 0]
    /\ window_cpu_time' = [p \in Pids |-> 0]
    /\ last_refresh' = now
    /\ \E order \in Orders(alive) :
          cpu_stats' = [i \in 1..Len(order) |-> [pid |-> order[i], got_cpu_usage |-> 0]]
    /\ total_cpu_usage' = 0
    /\ formatted_stats' = None
    /\ total_cpu_usage_message' = None
    /\ process_cpu_usage_message' = None
    /\ file_at_cycle_start' = file
    /\ console' = <<>>
    /\ pc' = "sleep"
    /\ UNCHANGED <<args, cycle, now, alive, busy_sleeps, file>>

\* line 100
MeasurementSleep ==
    /\ pc = "sleep"
    /\ \E busy \in BusyChoices, exits \in ExitChoices :
          /\ window_cpu_time' = Consumed(busy, measurement_time)
          /\ unread_cpu_time' = [p \in Pids |->
                IF p \in exits THEN 0
                ELSE unread_cpu_time[p] + Consumed(busy, measurement_time)[p]]
          /\ busy_sleeps' = busy_sleeps + Cardinality(busy)
          /\ alive' = alive \ exits
    /\ now' = now + measurement_time
    /\ pc' = "end"
    /\ UNCHANGED <<args, cycle, sys_processes, sys_cpu_usage, last_refresh,
                   cpu_stats, total_cpu_usage, formatted_stats,
                   total_cpu_usage_message, process_cpu_usage_message, file,
                   file_at_cycle_start, console>>

\* lines 103-106: got_cpu_usage = process.cpu_usage() / cpu_count
UpdateCpuUsage(stats) ==
    [i \in 1..Len(stats) |->
        [pid |-> stats[i].pid,
         got_cpu_usage |-> sys_cpu_usage[stats[i].pid] \div CpuCount]]

\* lines 103-117
EndSample ==
    /\ pc = "end"
    /\ cpu_stats' = SortByUsage(UpdateCpuUsage(cpu_stats))
    /\ total_cpu_usage' = SumUsage(cpu_stats')
    /\ pc' = "total"
    /\ UNCHANGED <<args, cycle, now, alive, busy_sleeps, unread_cpu_time, window_cpu_time,
                   sys_processes, sys_cpu_usage, last_refresh, formatted_stats,
                   total_cpu_usage_message, process_cpu_usage_message, file,
                   file_at_cycle_start, console>>

\* lines 120-144
CheckTotal ==
    /\ pc = "total"
    /\ IF Breaches(total_cpu_usage, args.total_log_threshold)
       THEN /\ formatted_stats' = format_stats(cpu_stats, total_cpu_usage,
                                               args.number_of_processes_to_show)
            /\ total_cpu_usage_message' =
                   TotalMessage(args.total_log_threshold, total_cpu_usage)
            /\ file' = log_to_file(args.log_file,
                           total_cpu_usage_message' \o formatted_stats', file)
       ELSE UNCHANGED <<formatted_stats, total_cpu_usage_message, file>>
    /\ pc' = "procs"
    /\ UNCHANGED <<args, cycle, now, alive, busy_sleeps, unread_cpu_time, window_cpu_time,
                   sys_processes, sys_cpu_usage, last_refresh, cpu_stats,
                   total_cpu_usage, process_cpu_usage_message,
                   file_at_cycle_start, console>>

\* mutant of CheckProcesses: nothing logged when the system alert was logged
CheckProcessesOneEntry ==
    /\ pc = "procs"
    /\ process_cpu_usage_message' =
           ProcessMessage(cpu_stats, args.process_log_threshold)
    /\ IF IsSome(process_cpu_usage_message') /\ ~IsSome(total_cpu_usage_message)
       THEN file' = log_to_file(args.log_file, process_cpu_usage_message', file)
       ELSE UNCHANGED file
    /\ pc' = "print"
    /\ UNCHANGED <<args, cycle, now, alive, busy_sleeps, unread_cpu_time, window_cpu_time,
                   sys_processes, sys_cpu_usage, last_refresh, cpu_stats,
                   total_cpu_usage, formatted_stats, total_cpu_usage_message,
                   file_at_cycle_start, console>>

\* lines 146-168
CheckProcesses ==
    /\ pc = "procs"
    /\ process_cpu_usage_message' =
           ProcessMessage(cpu_stats, args.process_log_threshold)
    /\ IF IsSome(process_cpu_usage_message')
       THEN file' = log_to_file(args.log_file, process_cpu_usage_message', file)
       ELSE UNCHANGED file
    /\ pc' = "print"
    /\ UNCHANGED <<args, cycle, now, alive, busy_sleeps, unread_cpu_time, window_cpu_time,
                   sys_processes, sys_cpu_usage, last_refresh, cpu_stats,
                   total_cpu_usage, formatted_stats, total_cpu_usage_message,
                   file_at_cycle_start, console>>

\* mutant of PrintResults: the table printed only when it was already formatted
PrintResultsNoFormat ==
    /\ pc = "print"
    /\ IF args.cli /\ IsSome(formatted_stats)
       THEN /\ console' = PrintEvents(formatted_stats, total_cpu_usage_message,
                                      process_cpu_usage_message)
            /\ UNCHANGED formatted_stats
       ELSE UNCHANGED <<formatted_stats, console>>
    /\ pc' = "wait"
    /\ UNCHANGED <<args, cycle, now, alive, busy_sleeps, unread_cpu_time, window_cpu_time,
                   sys_processes, sys_cpu_usage, last_refresh, cpu_stats,
                   total_cpu_usage, total_cpu_usage_message,
                   process_cpu_usage_message, file, file_at_cycle_start>>

\* lines 170-194
PrintResults ==
    /\ pc = "print"
    /\ IF args.cli
       THEN /\ formatted_stats' =
                   IF IsSome(formatted_stats) THEN formatted_stats
                   ELSE format_stats(cpu_stats, total_cpu_usage,
                                     args.number_of_processes_to_show)
            /\ console' = PrintEvents(formatted_stats', total_cpu_usage_message,
                                      process_cpu_usage_message)
       ELSE UNCHANGED <<formatted_stats, console>>
    /\ pc' = "wait"
    /\ UNCHANGED <<args, cycle, now, alive, busy_sleeps, unread_cpu_time, window_cpu_time,
                   sys_processes, sys_cpu_usage, last_refresh, cpu_stats,
                   total_cpu_usage, total_cpu_usage_message,
                   process_cpu_usage_message, file,
                   file_at_cycle_start>>

\* line 197, and the loop's next iteration
WaitNext ==
    /\ pc = "wait"
    /\ cycle < MaxCycles
    /\ \E busy \in BusyChoices, exits \in ExitChoices :
          /\ unread_cpu_time' = [p \in Pids |->
                IF p \in exits THEN 0
                ELSE unread_cpu_time[p] + Consumed(busy, time_between_measurements)[p]]
          /\ busy_sleeps' = busy_sleeps + Cardinality(busy)
          /\ alive' = alive \ exits
    /\ now' = now + time_between_measurements
    /\ cycle' = cycle + 1
    /\ pc' = "begin"
    /\ UNCHANGED <<args, window_cpu_time, sys_processes, sys_cpu_usage,
                   last_refresh, cpu_stats, total_cpu_usage, formatted_stats,
                   total_cpu_usage_message, process_cpu_usage_message, file,
                   file_at_cycle_start, console>>

Next ==
    \/ BeginSample
    \/ MeasurementSleep
    \/ EndSample
    \/ CheckTotal
    \/ CheckProcesses
    \/ PrintResults
    \/ WaitNext

Spec == Init /\ [][Next]_vars

\* ------------------------------------------------------------------ claims
AfterSample == pc \in {"total", "procs", "print", "wait"}
AfterTotal == pc \in {"procs", "print", "wait"}
AfterProcs == pc \in {"print", "wait"}

ListedPids == {cpu_stats[i].pid : i \in DOMAIN cpu_stats}
Named(pid) == \E j \in DOMAIN process_cpu_usage_message :
                  process_cpu_usage_message[j].pid = pid
IsBlank(line) == line.text.kind = "empty"
\* the lines appended to the log file since the cycle began
Appended == SubSeq(file.lines, Len(file_at_cycle_start.lines) + 1, Len(file.lines))
Stamped(lines) == [i \in 1..Len(lines) |-> [ts |-> now, text |-> lines[i]]]
BlankStamped == << [ts |-> now, text |-> [kind |-> "empty"]] >>
TableRows(table) == SelectSeq(table, LAMBDA l : l.kind = "row")
\* blocks of lines delimited by blank lines
Blocks(lines) == {i \in DOMAIN lines :
                    ~IsBlank(lines[i]) /\ (i = 1 \/ IsBlank(lines[i - 1]))}
\* first lines of the logged alert messages
EntryStarts(lines) == {i \in DOMAIN lines :
    \/ lines[i].text.kind = "total_exceeded"
    \/ /\ lines[i].text.kind = "process_exceeded"
       /\ (i = 1 \/ lines[i - 1].text.kind # "process_exceeded")}
NoBreach ==
    /\ total_cpu_usage < args.total_log_threshold
    /\ \A i \in DOMAIN cpu_stats :
          cpu_stats[i].got_cpu_usage < args.process_log_threshold

\* C1: both threshold comparisons are inclusive. After the system check an
\* alert message exists exactly when total_cpu_usage >= total_log_threshold,
\* and after the per-process check a listed process is named in the
\* per-process message exactly when its usage >= process_log_threshold; a
\* value below the threshold never triggers the alert.
C1_InclusiveThresholds ==
    /\ AfterTotal =>
          (IsSome(total_cpu_usage_message)
              <=> total_cpu_usage >= args.total_log_threshold)
    /\ AfterProcs =>
          \A i \in DOMAIN cpu_stats :
              Named(cpu_stats[i].pid)
                  <=> cpu_stats[i].got_cpu_usage >= args.process_log_threshold

C1_Witness ==
    /\ pc = "wait"
    /\ total_cpu_usage = args.total_log_threshold
    /\ IsSome(total_cpu_usage_message)
    /\ \E i \in DOMAIN cpu_stats :
          /\ cpu_stats[i].got_cpu_usage = args.process_log_threshold
          /\ Named(cpu_stats[i].pid)
    /\ \E i \in DOMAIN cpu_stats :
          /\ cpu_stats[i].got_cpu_usage < args.process_log_threshold
          /\ ~Named(cpu_stats[i].pid)

\* C2: the processes named in the per-process message are a prefix of the
\* list sorted descending by usage: the k named processes are the first k of
\* the list in order, nothing after a below-threshold process is named, and
\* no process left out has a usage >= process_log_threshold.
C2_PrefixSelection ==
    AfterProcs =>
        LET k == Len(process_cpu_usage_message) IN
        /\ k <= Len(cpu_stats)
        /\ \A i \in 1..k : process_cpu_usage_message[i].pid = cpu_stats[i].pid
        /\ \A i \in DOMAIN cpu_stats : \A j \in DOMAIN cpu_stats :
              (i < j /\ cpu_stats[i].got_cpu_usage < args.process_log_threshold)
                  => ~Named(cpu_stats[j].pid)
        /\ \A i \in DOMAIN cpu_stats :
              cpu_stats[i].got_cpu_usage >= args.process_log_threshold
                  => Named(cpu_stats[i].pid)

C2_Witness ==
    /\ AfterProcs
    /\ Len(process_cpu_usage_message) > 0
    /\ Len(process_cpu_usage_message) < Len(cpu_stats)
    /\ cpu_stats[Len(process_cpu_usage_message) + 1].got_cpu_usage > 0

\* C3 as stated: one log_to_file call with a path and a message of k lines
\* appends exactly the k timestamped lines plus one following blank
\* timestamped line after the file's previous content. (Checked on the
\* system-wide call, the only call of the cycle made before pc = "procs".)
C3_Original ==
    (pc = "procs" /\ args.log_file = "Some" /\ IsSome(total_cpu_usage_message)) =>
        file.lines = file_at_cycle_start.lines
                     \o Stamped(total_cpu_usage_message \o formatted_stats)
                     \o BlankStamped

\* C3 amended: one log_to_file call with a path and a message of k lines
\* appends exactly k + 2 lines after the file's previous content: a blank
\* timestamped line, the k lines each with the timestamp prefix, and a blank
\* timestamped line. (Checked on each call that is the cycle's only one.)
C3_FramedAppend ==
    /\ (pc = "procs" /\ args.log_file = "Some" /\ IsSome(total_cpu_usage_message)) =>
          /\ file.exists
          /\ file.lines = file_at_cycle_start.lines
                          \o BlankStamped
                          \o Stamped(total_cpu_usage_message \o formatted_stats)
                          \o BlankStamped
    /\ (pc = "print" /\ args.log_file = "Some" /\ ~IsSome(total_cpu_usage_message)
            /\ IsSome(process_cpu_usage_message)) =>
          /\ file.exists
          /\ file.lines = file_at_cycle_start.lines
                          \o BlankStamped
                          \o Stamped(process_cpu_usage_message)
                          \o BlankStamped

C3_Witness ==
    /\ pc = "procs"
    /\ args.log_file = "Some"
    /\ IsSome(total_cpu_usage_message)
    /\ file_at_cycle_start = PreExistingFile
    /\ Len(file.lines) = 1 + Len(total_cpu_usage_message \o formatted_stats) + 2

\* C4: in a cycle where total_cpu_usage is below total_log_threshold and
\* every usage is below process_log_threshold, no alert message is produced,
\* the log file is as it was when the cycle began, and with console mode on
\* the console shows the table of the top N processes and nothing more.
C4_NoBreachCycle ==
    /\ (AfterProcs /\ NoBreach) =>
          /\ ~IsSome(total_cpu_usage_message)
          /\ ~IsSome(process_cpu_usage_message)
          /\ file = file_at_cycle_start
    /\ (pc = "wait" /\ NoBreach /\ args.cli) =>
          /\ Len(console) = 2
          /\ console[1].op = "clear"
          /\ console[2].op = "println"
          /\ TableRows(console[2].text) =
                [i \in 1..Min(args.number_of_processes_to_show, Len(cpu_stats)) |->
                    [kind |-> "row", pid |-> cpu_stats[i].pid,
                     usage |-> cpu_stats[i].got_cpu_usage]]

C4_Witness ==
    /\ pc = "wait"
    /\ NoBreach
    /\ args.cli
    /\ args.log_file = "Some"
    /\ file = PreExistingFile
    /\ total_cpu_usage > 0
    /\ Len(console) = 2

\* C5: with no log-file path configured, no file is created or written in
\* any cycle, whatever alerts are produced.
C5_NoPathNoFile ==
    args.log_file = "None" => (~file.exists /\ file.lines = <<>>)

C5_Witness ==
    /\ pc = "wait"
    /\ args.log_file = "None"
    /\ IsSome(total_cpu_usage_message)
    /\ IsSome(process_cpu_usage_message)
    /\ ~file.exists

\* C6: with console mode on, the console events of a cycle are, in order:
\* clear, the table, the system alert message if produced, the per-process
\* alert message if produced; with console mode off nothing is cleared or
\* printed.
C6_ConsoleOrder ==
    /\ ~args.cli => console = <<>>
    /\ (pc = "wait" /\ args.cli) =>
          LET hasT == IsSome(total_cpu_usage_message)
              hasP == IsSome(process_cpu_usage_message)
              n == 2 + (IF hasT THEN 1 ELSE 0) + (IF hasP THEN 1 ELSE 0)
          IN /\ Len(console) = n
             /\ console[1].op = "clear"
             /\ console[2].op = "println"
             /\ console[2].text[1].kind = "header"
             /\ console[2].text = formatted_stats
             /\ hasT => /\ console[3].op = "println"
                        /\ console[3].text[2].kind = "total_exceeded"
             /\ hasP => /\ console[n].op = "println"
                        /\ console[n].text[2].kind = "process_exceeded"

C6_Witness ==
    /\ pc = "wait"
    /\ args.cli
    /\ IsSome(total_cpu_usage_message)
    /\ IsSome(process_cpu_usage_message)
    /\ Len(console) = 4

\* C7: the table has exactly min(N, number of processes) rows, in
\* non-increasing order of usage, each the row of a distinct listed process,
\* and no process left out of the table has a greater usage than one shown.
C7_TopNTable ==
    (AfterTotal /\ IsSome(formatted_stats)) =>
        LET rows == TableRows(formatted_stats)
            shown == {rows[i].pid : i \in DOMAIN rows}
        IN /\ Len(rows) = Min(args.number_of_processes_to_show, Len(cpu_stats))
           /\ \A i \in DOMAIN rows : \A j \in DOMAIN rows :
                 i < j => /\ rows[i].usage >= rows[j].usage
                          /\ rows[i].pid # rows[j].pid
           /\ \A i \in DOMAIN rows : \E j \in DOMAIN cpu_stats :
                 /\ cpu_stats[j].pid = rows[i].pid
                 /\ cpu_stats[j].got_cpu_usage = rows[i].usage
           /\ \A j \in DOMAIN cpu_stats :
                 cpu_stats[j].pid \notin shown =>
                     \A i \in DOMAIN rows : cpu_stats[j].got_cpu_usage <= rows[i].usage

C7_Witness ==
    /\ AfterTotal
    /\ IsSome(formatted_stats)
    /\ args.number_of_processes_to_show = 1
    /\ Len(cpu_stats) >= 2
    /\ cpu_stats[1].got_cpu_usage > cpu_stats[2].got_cpu_usage
    /\ Len(TableRows(formatted_stats)) = 1

\* C8 as stated: with a log file configured a cycle appends at most one
\* entry (a block of timestamped lines delimited by a blank timestamped
\* line), also when both alerts are produced.
C8_Original ==
    (AfterProcs /\ args.log_file = "Some") => Cardinality(Blocks(Appended)) <= 1

\* C8 amended: with a log file configured a cycle appends one entry per alert
\* message produced -- none, one, or two when both the system-wide and the
\* per-process alert are produced -- each starting after a blank timestamped
\* line, the system-wide entry first, and the appended lines end with a
\* blank timestamped line.
C8_EntryPerAlert ==
    (AfterProcs /\ args.log_file = "Some") =>
        LET starts == EntryStarts(Appended)
            nT == IF IsSome(total_cpu_usage_message) THEN 1 ELSE 0
            nP == IF IsSome(process_cpu_usage_message) THEN 1 ELSE 0
        IN /\ Cardinality(starts) = nT + nP
           /\ \A i \in starts : i > 1 /\ IsBlank(Appended[i - 1])
           /\ \A i \in starts : \A j \in starts :
                 (i < j) => /\ Appended[i].text.kind = "total_exceeded"
                            /\ Appended[j].text.kind = "process_exceeded"
           /\ Appended # <<>> => IsBlank(Appended[Len(Appended)])

C8_Witness ==
    /\ AfterProcs
    /\ args.log_file = "Some"
    /\ IsSome(total_cpu_usage_message)
    /\ IsSome(process_cpu_usage_message)
    /\ Cardinality(EntryStarts(Appended)) = 2

\* C9 as stated: the usage reported for a process in a cycle is the cpu time
\* it consumed during that cycle's measurement window, divided by the window
\* duration and the core count.
WindowUsage(pid) ==
    ((100 * window_cpu_time[pid]) \div measurement_time) \div CpuCount

C9_WindowUsage ==
    AfterSample =>
        \A i \in DOMAIN cpu_stats :
            cpu_stats[i].got_cpu_usage = WindowUsage(cpu_stats[i].pid)

\* C10: a process present when the sample begins that ends during the
\* measurement window is dropped from that cycle's result: every process in
\* the list after the sample (hence in the total, the table and the alerts)
\* is still running.
C10_Original ==
    AfterSample => \A i \in DOMAIN cpu_stats : cpu_stats[i].pid \in alive

====
